---- MODULE Spec2Model ----
(***************************************************************************)
(* Model of the LangGraph pipeline of src/text2sql_agent.py: the nodes     *)
(* guardrail_agent, sql_agent, execute_sql, error_agent, the joined        *)
(* analysis/graph-decision node and viz_agent, with the routing functions  *)
(* check_scope, should_retry and should_generate_graph.                    *)
(*                                                                         *)
(* Texts that the code trims or rewrites are sequences of symbols, so that *)
(* strip() and replace() are computed.  The completion port (llm) and the  *)
(* data store (db.run) are environments: each call returns one of a small  *)
(* set of outputs, or raises.                                              *)
(***************************************************************************)
EXTENDS Integers, Sequences, FiniteSets, TLC

VARIABLES pc, sql_query, query_result, error, iteration, needs_graph,
          graph_type, graph_json, final_answer, is_in_scope, MAX_RETRIES,
          analysis_result, graph_result,
          path, guardrail_result, executed, repaired, initial_is_in_scope,
          viz_outcome, figure, last_attempt

vars == <<pc, sql_query, query_result, error, iteration, needs_graph,
          graph_type, graph_json, final_answer, is_in_scope, MAX_RETRIES,
          analysis_result, graph_result,
          path, guardrail_result, executed, repaired, initial_is_in_scope, viz_outcome, figure, last_attempt>>

\* ---------------------------------------------------------------- bounds
\* Largest retry ceiling the environment variable MAX_RETRIES is drawn from.
MaxCeiling == 4
\* Cap on the iteration counter (never reached by the code, whose loop
\* stops at 3; it keeps the state space finite whatever the routing does).
MaxIteration == 6

\* ------------------------------------------------------- program constants
\* config.py: int(os.getenv("MAX_RETRIES", "3"))
DefaultMaxRetries == 3

END == "END"
RAISED == "raised"

GREETING_ANSWER == <<"Hello! I can help you analyze your e-commerce data. Ask me about orders, products, or customers.">>
OUT_OF_SCOPE_ANSWER == <<"I can only answer questions about the e-commerce database. Please ask about orders, sales, or products.">>

\* ---------------------------------------------------------- text helpers
\* The markdown fences ```sql, ```json and ``` as single symbols.
FENCE_SQL == "<fence sql>"
FENCE_JSON == "<fence json>"
FENCE == "<fence>"

WS == {" ", "\n"}

RECURSIVE lstrip(_)
lstrip(s) == IF s # <<>> /\ Head(s) \in WS THEN lstrip(Tail(s)) ELSE s

RECURSIVE rstrip(_)
rstrip(s) == IF s # <<>> /\ s[Len(s)] \in WS
             THEN rstrip(SubSeq(s, 1, Len(s) - 1)) ELSE s

\* str.strip()
strip(s) == rstrip(lstrip(s))

\* str.replace(sym, "")
RECURSIVE remove(_, _)
remove(s, sym) == IF s = <<>> THEN <<>>
                  ELSE IF Head(s) = sym THEN remove(Tail(s), sym)
                  ELSE <<Head(s)>> \o remove(Tail(s), sym)

\* query.strip() ; query.replace("```sql", "").replace("```", "").strip()
clean_query(raw) == strip(remove(remove(strip(raw), FENCE_SQL), FENCE))

\* ------------------------------------------------------------ environment
\* What a completion-port call can do besides returning text.
RAISE == <<"<exception>">>
\* guardrail_result before the classifier has returned
NotRun == <<"<not run>">>

GuardrailOutputs ==
    { <<"GREETING">>, <<" ", "GREETING", "\n">>, <<"OUT_OF_SCOPE">>,
      <<"IN_SCOPE">>, <<"greeting">>, <<"GREETING", " ", "IN_SCOPE">>, <<>> }

SqlOutputs ==
    { <<>>, <<"SELECT 1">>, <<" ", "SELECT 2", "\n">>,
      <<FENCE_SQL, "\n", "SELECT 1", "\n", FENCE>> }

NarratorOutputs == { <<>>, <<"The result is ...">>, <<"The query failed ...">> }

\* Rows returned by db.run: "" (no rows), one value, several rows of two
\* columns (short labels; a 32-character key among the labels), rows of
\* three columns led by 32-character keys, and one row of four columns.
NoRows == <<>>
KEY_1 == "00012a2ce6f8dcda20d059ce98491703"
KEY_2 == "000161a058600d5901f007fab4c27140"
DbResults == { NoRows, << <<"42">> >>,
               << <<"sao paulo", "500">>, <<"rio de janeiro", "480">> >>,
               << <<KEY_1, "500">>, <<"sao paulo", "480">> >>,
               << <<KEY_1, "sao paulo", "500">>, <<KEY_2, "rio de janeiro", "480">> >>,
               << <<"sao paulo", "SP", "3", "500">> >> }

\* len(str(cell)) of the cells above
StrLen(cell) ==
    CASE cell \in {KEY_1, KEY_2} -> 32
      [] cell = "rio de janeiro" -> 14
      [] cell = "sao paulo" -> 9
      [] cell \in {"500", "480"} -> 3
      [] cell \in {"42", "SP"} -> 2
      [] cell = "3" -> 1

\* str(e) of the exception db.run raised
DbErrors == { "syntax error", "no such column" }

\* --------------------------------------------- chart decision: JSON texts
\* JSON documents the completion port may answer with (one symbol each).
J_TRUE_BAR == "{needs_graph: true, graph_type: bar}"
J_TRUE_LINE == "{needs_graph: true, graph_type: line}"
J_FALSE_NONE == "{needs_graph: false, graph_type: none}"
J_EMPTY == "{}"
J_LIST == "[1, 2]"
J_TRUE_HEATMAP == "{needs_graph: true, graph_type: heatmap}"
J_YES == "{needs_graph: yes-string}"

JsonDocs == { J_TRUE_BAR, J_TRUE_LINE, J_FALSE_NONE, J_EMPTY, J_LIST,
              J_TRUE_HEATMAP, J_YES }

\* json.loads of one document; Python values are written as their repr.
JsonValue(doc) ==
    CASE doc = J_TRUE_BAR     -> [kind |-> "dict", keys |-> {"needs_graph", "graph_type"},
                                  needs_graph |-> "True", graph_type |-> "bar"]
      [] doc = J_TRUE_LINE    -> [kind |-> "dict", keys |-> {"needs_graph", "graph_type"},
                                  needs_graph |-> "True", graph_type |-> "line"]
      [] doc = J_FALSE_NONE   -> [kind |-> "dict", keys |-> {"needs_graph", "graph_type"},
                                  needs_graph |-> "False", graph_type |-> "none"]
      [] doc = J_EMPTY        -> [kind |-> "dict", keys |-> {},
                                  needs_graph |-> "", graph_type |-> ""]
      [] doc = J_LIST         -> [kind |-> "list", keys |-> {},
                                  needs_graph |-> "", graph_type |-> ""]
      [] doc = J_TRUE_HEATMAP -> [kind |-> "dict", keys |-> {"needs_graph", "graph_type"},
                                  needs_graph |-> "True", graph_type |-> "heatmap"]
      [] doc = J_YES          -> [kind |-> "dict", keys |-> {"needs_graph"},
                                  needs_graph |-> "'yes'", graph_type |-> ""]

\* json.loads succeeds on exactly one document
json_decodable(text) == Len(text) = 1 /\ text[1] \in JsonDocs

ChartOutputs ==
    { <<J_TRUE_BAR>>, <<" ", J_FALSE_NONE, "\n">>,
      <<FENCE_JSON, "\n", J_TRUE_LINE, "\n", FENCE>>,
      <<FENCE, J_TRUE_BAR, FENCE, " ", "Explanation">>,
      <<"Sure!", " ", J_TRUE_BAR>>, <<J_EMPTY>>, <<J_LIST>>,
      <<J_TRUE_HEATMAP>>, <<J_YES>>, <<>> }

\* sym in response
contains(s, sym) == \E i \in 1..Len(s) : s[i] = sym

\* the text after the first occurrence of sym
RECURSIVE after(_, _)
after(s, sym) == IF s = <<>> THEN <<>>
                 ELSE IF Head(s) = sym THEN Tail(s) ELSE after(Tail(s), sym)

\* the text before the first symbol of stops
RECURSIVE before(_, _)
before(s, stops) == IF s = <<>> \/ Head(s) \in stops THEN <<>>
                    ELSE <<Head(s)>> \o before(Tail(s), stops)

\* response.split(fence)[1].split("```")[0].strip(); every fence symbol
\* starts with the characters of the bare fence
between_fences(s, fence) ==
    strip(before(before(after(s, fence), {fence}), {FENCE, FENCE_JSON, FENCE_SQL}))

unfence(response) ==
    IF contains(response, FENCE_JSON) THEN between_fences(response, FENCE_JSON)
    ELSE IF contains(response, FENCE) THEN between_fences(response, FENCE)
    ELSE response

dict_get(d, key, default) ==
    IF key \in d.keys THEN (IF key = "needs_graph" THEN d.needs_graph ELSE d.graph_type)
    ELSE default

\* Python truth value of a value written as its repr
truthy(v) == v \notin {"False", "None", "''", "0", ""}

\* the try block of decide_graph_need reaches its return: json.loads
\* succeeds and the value has a get method
decodes_to_record(raw) ==
    LET text == unfence(strip(raw)) IN
    json_decodable(text) /\ JsonValue(text[1]).kind = "dict"

\* decide_graph_need, from the completion text to the returned update
graph_decision(raw) ==
    LET text == unfence(strip(raw)) IN
    IF decodes_to_record(raw)
    THEN [needs_graph |-> dict_get(JsonValue(text[1]), "needs_graph", "False"),
          graph_type  |-> dict_get(JsonValue(text[1]), "graph_type", "none")]
    ELSE [needs_graph |-> "False", graph_type |-> "none"]

\* guardrail_agent's branches on the trimmed completion text
\* (variant: a classifier that fails closed)
guardrail_in_scope_fail_closed(result) == result = <<"IN_SCOPE">>

guardrail_in_scope(result) ==
    IF result = <<"GREETING">> THEN FALSE
    ELSE IF result = <<"OUT_OF_SCOPE">> THEN FALSE
    ELSE TRUE

guardrail_answer(result, previous) ==
    IF result = <<"GREETING">> THEN GREETING_ANSWER
    ELSE IF result = <<"OUT_OF_SCOPE">> THEN OUT_OF_SCOPE_ANSWER
    ELSE previous

\* ------------------------------------------------------------- routing
\* (variant: the scope gate ignores the classification)
check_scope_ignored(in_scope) == "sql_agent"

check_scope(in_scope) == IF in_scope THEN "sql_agent" ELSE END

\* (variant: the repairer hands over to narration without a new execution)
workflow_edge_repair_to_narration(node) ==
    IF node = "sql_agent" THEN "execute_sql" ELSE "parallel_analysis"

\* (variant: the synthesizer and the repairer are wired to each other, so
\* the cycle never passes the retry decision)
workflow_edge_past_retry_decision(node) ==
    IF node = "sql_agent" THEN "error_agent" ELSE "sql_agent"

\* workflow.add_edge("sql_agent", "execute_sql")
\* workflow.add_edge("error_agent", "sql_agent")
workflow_edge(node) ==
    IF node = "sql_agent" THEN "execute_sql" ELSE "sql_agent"

\* (variant: the retry decision has no ceiling)
should_retry_unbounded(err, it) ==
    IF err # "" THEN "error_agent" ELSE "parallel_analysis"

\* (variant: the ceiling is compared with <=)
should_retry_inclusive(err, it) ==
    IF err # "" /\ it <= 3 THEN "error_agent" ELSE "parallel_analysis"

\* (variant: the error field is not consulted)
should_retry_blind(err, it) ==
    IF it < 3 THEN "error_agent" ELSE "parallel_analysis"

should_retry(err, it) ==
    IF err # "" /\ it < 3 THEN "error_agent" ELSE "parallel_analysis"

\* (variant: the renderer runs whatever the decision was)
should_generate_graph_always(ng) == "viz_agent"

should_generate_graph(ng) == IF truthy(ng) THEN "viz_agent" ELSE END

\* ------------------------------------------------------------ branches
\* The two workers of the joined node, before either has returned.
\* `prompt` holds the state fields the worker put into its prompt, and
\* `raw` the completion text the chart decision was computed from.
\* analysis_agent's system prompt: question, sql_query and query_result
\* (state["error"] is not read)
analysis_prompt(query, rows, err) ==
    [sql_query |-> query, query_result |-> rows]

\* decide_graph_need's user prompt: question and query_result
graph_prompt(rows) == [query_result |-> rows]

IdleAnalysis == [status |-> "idle", final_answer |-> <<>>,
                 prompt |-> analysis_prompt(<<>>, NoRows, "")]
IdleGraph == [status |-> "idle", needs_graph |-> "False", graph_type |-> "none",
              raw |-> <<>>, prompt |-> graph_prompt(NoRows)]

\* ------------------------------------------------------ the drawn figure
\* mean string length above which labels are replaced
LabelThreshold == 20

GenericColumns == <<"col0", "col1", "col2", "col3", "col4">>
CustomerLabels == <<"Customer 1", "Customer 2", "Customer 3">>
ItemLabels == <<"Item 1", "Item 2", "Item 3">>

\* columns = ['value'] | ['label', 'value'] | ['id', 'label', 'value'] | col0..
viz_columns(num_cols) ==
    IF num_cols = 1 THEN <<"value">>
    ELSE IF num_cols = 2 THEN <<"label", "value">>
    ELSE IF num_cols = 3 THEN <<"id", "label", "value">>
    ELSE SubSeq(GenericColumns, 1, num_cols)

\* 'name' in df.columns
has_column(columns, name) == \E k \in 1..Len(columns) : columns[k] = name

\* df[name]
column_of(rows, columns, name) ==
    LET k == CHOOSE j \in 1..Len(columns) : columns[j] = name IN
    [i \in 1..Len(rows) |-> rows[i][k]]

RECURSIVE sum_len(_)
sum_len(cells) ==
    IF cells = <<>> THEN 0 ELSE StrLen(Head(cells)) + sum_len(Tail(cells))

\* df[name].astype(str).str.len().mean() > 20
mean_len_above(cells, threshold) == sum_len(cells) > threshold * Len(cells)

\* (variant: the id column is looked at before the label column)
viz_x_labels_id_first(rows, columns) ==
    IF has_column(columns, "id")
    THEN IF mean_len_above(column_of(rows, columns, "id"), LabelThreshold)
         THEN SubSeq(ItemLabels, 1, Len(rows))
         ELSE column_of(rows, columns, "id")
    ELSE IF has_column(columns, "label")
    THEN IF mean_len_above(column_of(rows, columns, "label"), LabelThreshold)
         THEN SubSeq(CustomerLabels, 1, Len(rows))
         ELSE column_of(rows, columns, "label")
    ELSE SubSeq(ItemLabels, 1, Len(rows))

\* the values of x_col: the label column or 'Customer i+1', else the id
\* column or 'Item i+1', else 'Item i+1'
viz_x_labels(rows, columns) ==
    IF has_column(columns, "label")
    THEN IF mean_len_above(column_of(rows, columns, "label"), LabelThreshold)
         THEN SubSeq(CustomerLabels, 1, Len(rows))
         ELSE column_of(rows, columns, "label")
    ELSE IF has_column(columns, "id")
    THEN IF mean_len_above(column_of(rows, columns, "id"), LabelThreshold)
         THEN SubSeq(ItemLabels, 1, Len(rows))
         ELSE column_of(rows, columns, "id")
    ELSE SubSeq(ItemLabels, 1, Len(rows))

\* y_col = 'value' if 'value' in df.columns else df.columns[-1]
viz_y_column(columns) ==
    IF has_column(columns, "value") THEN "value" ELSE columns[Len(columns)]

\* the px.* call chosen by graph_type; any other kind is drawn as a bar chart
viz_kind(kind) ==
    IF kind \in {"bar", "line", "pie", "scatter"} THEN kind ELSE "bar"

\* the figure serialised into graph_json
viz_figure(rows, kind) ==
    LET columns == viz_columns(Len(rows[1])) IN
    [kind |-> viz_kind(kind), columns |-> columns,
     x |-> viz_x_labels(rows, columns),
     y |-> column_of(rows, columns, viz_y_column(columns))]

\* no figure was drawn
NoFigure == [kind |-> "none", columns |-> <<>>, x |-> <<>>, y |-> <<>>]

\* ---------------------------------------------------------------- Init
\* The state the callers build (app.py on_message, quick_test.py), with the
\* ceiling read from the environment by config.py.
Init ==
    /\ pc = "guardrail_agent"
    /\ sql_query = <<>>
    /\ query_result = NoRows
    /\ error = ""
    /\ iteration = 0
    /\ needs_graph = "False"
    /\ graph_type = ""
    /\ graph_json = ""
    /\ final_answer = <<>>
    /\ is_in_scope \in BOOLEAN
    /\ MAX_RETRIES \in 1..MaxCeiling
    /\ analysis_result = IdleAnalysis
    /\ graph_result = IdleGraph
    /\ path = <<>>
    /\ guardrail_result = NotRun
    /\ executed = <<>>
    /\ repaired = <<>>
    /\ initial_is_in_scope = is_in_scope
    /\ viz_outcome = "not run"
    /\ figure = NoFigure
    /\ last_attempt = [query |-> <<>>, query_result |-> NoRows, error |-> ""]

\* --------------------------------------------------------------- actions
\* An exception leaves the node: graph.invoke re-raises it to the caller.
raise(node) ==
    /\ pc' = RAISED
    /\ path' = Append(path, node)
    /\ UNCHANGED <<sql_query, query_result, error, iteration, needs_graph,
                   graph_type, graph_json, final_answer, is_in_scope,
                   MAX_RETRIES, analysis_result, graph_result,
                   guardrail_result, executed, repaired,
                   initial_is_in_scope, viz_outcome, figure, last_attempt>>

guardrail_agent ==
    /\ pc = "guardrail_agent"
    /\ \E out \in GuardrailOutputs \cup {RAISE} :
         IF out = RAISE THEN raise("guardrail_agent")
         ELSE LET result == strip(out) IN
              /\ guardrail_result' = result
              /\ is_in_scope' = guardrail_in_scope(result)
              /\ final_answer' = guardrail_answer(result, final_answer)
              /\ pc' = check_scope(is_in_scope')
              /\ path' = Append(path, "guardrail_agent")
              /\ UNCHANGED <<sql_query, query_result, error, iteration,
                             needs_graph, graph_type, graph_json, MAX_RETRIES,
                             analysis_result, graph_result, executed, repaired,
                             initial_is_in_scope, viz_outcome, figure, last_attempt>>

sql_agent ==
    /\ pc = "sql_agent"
    /\ iteration < MaxIteration
    /\ \E out \in SqlOutputs \cup {RAISE} :
         IF out = RAISE THEN raise("sql_agent")
         ELSE /\ sql_query' = clean_query(out)
              /\ iteration' = iteration + 1
              /\ pc' = workflow_edge("sql_agent")
              /\ path' = Append(path, "sql_agent")
              /\ UNCHANGED <<query_result, error, needs_graph, graph_type,
                             graph_json, final_answer, is_in_scope, MAX_RETRIES,
                             analysis_result, graph_result, guardrail_result,
                             executed, repaired, initial_is_in_scope, viz_outcome, figure, last_attempt>>

\* (variant: a successful execution leaves the previous error in place)
execute_success_keeps_error(result, previous_error) ==
    [query_result |-> result, error |-> previous_error]

\* return {"query_result": result, "error": ""}
execute_success(result, previous_error) ==
    [query_result |-> result, error |-> ""]

\* except Exception as e: return {"error": str(e), "query_result": ""}
execute_failure(e, previous_rows) ==
    [query_result |-> NoRows, error |-> e]

execute_sql ==
    /\ pc = "execute_sql"
    /\ \/ \E result \in DbResults :
            /\ query_result' = execute_success(result, error).query_result
            /\ error' = execute_success(result, error).error
            /\ executed' = Append(executed, [query |-> sql_query, ok |-> TRUE])
            /\ last_attempt' = [query |-> sql_query,
                                query_result |-> result, error |-> ""]
       \/ \E e \in DbErrors :
            /\ error' = execute_failure(e, query_result).error
            /\ query_result' = execute_failure(e, query_result).query_result
            /\ executed' = Append(executed, [query |-> sql_query, ok |-> FALSE])
            /\ last_attempt' = [query |-> sql_query,
                                query_result |-> NoRows, error |-> e]
    /\ pc' = should_retry(error', iteration)
    /\ path' = Append(path, "execute_sql")
    /\ UNCHANGED <<sql_query, iteration, needs_graph, graph_type, graph_json,
                   final_answer, is_in_scope, MAX_RETRIES, analysis_result,
                   graph_result, guardrail_result, repaired, initial_is_in_scope, viz_outcome, figure>>

error_agent ==
    /\ pc = "error_agent"
    /\ iteration < MaxIteration
    /\ \E out \in SqlOutputs \cup {RAISE} :
         IF out = RAISE THEN raise("error_agent")
         ELSE /\ sql_query' = clean_query(out)
              /\ iteration' = iteration + 1
              /\ repaired' = Append(repaired, sql_query')
              /\ pc' = workflow_edge("error_agent")
              /\ path' = Append(path, "error_agent")
              /\ UNCHANGED <<query_result, error, needs_graph, graph_type,
                             graph_json, final_answer, is_in_scope, MAX_RETRIES,
                             analysis_result, graph_result, guardrail_result,
                             executed, initial_is_in_scope, viz_outcome, figure, last_attempt>>

\* Worker 1 of the joined node: reads the state, returns {"final_answer": answer}.
analysis_agent ==
    /\ pc = "parallel_analysis"
    /\ analysis_result.status = "idle"
    /\ \E out \in NarratorOutputs \cup {RAISE} :
         analysis_result' =
             IF out = RAISE
             THEN [status |-> "raised", final_answer |-> <<>>,
                   prompt |-> analysis_prompt(sql_query, query_result, error)]
             ELSE [status |-> "done", final_answer |-> out,
                   prompt |-> analysis_prompt(sql_query, query_result, error)]
    /\ UNCHANGED <<pc, sql_query, query_result, error, iteration, needs_graph,
                   graph_type, graph_json, final_answer, is_in_scope,
                   MAX_RETRIES, graph_result, path, guardrail_result,
                   executed, repaired, initial_is_in_scope, viz_outcome, figure, last_attempt>>

\* Worker 2 of the joined node: chain.invoke is outside the try block.
decide_graph_need ==
    /\ pc = "parallel_analysis"
    /\ graph_result.status = "idle"
    /\ \E out \in ChartOutputs \cup {RAISE} :
         graph_result' =
             IF out = RAISE
             THEN [status |-> "raised", needs_graph |-> "False",
                   graph_type |-> "none", raw |-> <<>>,
                   prompt |-> graph_prompt(query_result)]
             ELSE [status |-> "done",
                   needs_graph |-> graph_decision(out).needs_graph,
                   graph_type |-> graph_decision(out).graph_type,
                   raw |-> out, prompt |-> graph_prompt(query_result)]
    /\ UNCHANGED <<pc, sql_query, query_result, error, iteration, needs_graph,
                   graph_type, graph_json, final_answer, is_in_scope,
                   MAX_RETRIES, analysis_result, path, guardrail_result,
                   executed, repaired, initial_is_in_scope, viz_outcome, figure, last_attempt>>

\* (variant: the await returns as soon as one worker has a result)
gather_returns_first(a_status, g_status) ==
    a_status = "done" \/ g_status = "done"

\* await asyncio.gather(...) returns both results once both workers are done
gather_returns(a_status, g_status) ==
    a_status = "done" /\ g_status = "done"

\* await asyncio.gather(...) re-raises the first exception of a worker
gather_raises(a_status, g_status) ==
    a_status = "raised" \/ g_status = "raised"

\* asyncio.gather of the two workers, then merged = {**analysis, **graph}.
parallel_analysis_and_graph_decision ==
    /\ pc = "parallel_analysis"
    /\ \/ gather_raises(analysis_result.status, graph_result.status)
       \/ gather_returns(analysis_result.status, graph_result.status)
    /\ IF gather_raises(analysis_result.status, graph_result.status)
       THEN raise("parallel_analysis")
       ELSE /\ final_answer' = analysis_result.final_answer
            /\ needs_graph' = graph_result.needs_graph
            /\ graph_type' = graph_result.graph_type
            /\ pc' = should_generate_graph(needs_graph')
            /\ path' = Append(path, "parallel_analysis")
            /\ UNCHANGED <<sql_query, query_result, error, iteration,
                           graph_json, is_in_scope, MAX_RETRIES,
                           analysis_result, graph_result, guardrail_result,
                           executed, repaired, initial_is_in_scope, viz_outcome, figure, last_attempt>>

\* (variant: an exception of the chart library leaves viz_agent)
viz_render_propagates(rows, lib_ok) ==
    IF rows = NoRows
    THEN [graph_json |-> "", outcome |-> "no rows", raised |-> FALSE]
    ELSE IF lib_ok
    THEN [graph_json |-> "figure", outcome |-> "drawn", raised |-> FALSE]
    ELSE [graph_json |-> "", outcome |-> "library raised", raised |-> TRUE]

\* viz_agent's body: "" when the result text does not parse or holds no
\* rows, "" when pandas/plotly raise (outer except), else the figure's JSON
viz_render(rows, lib_ok) ==
    IF rows = NoRows
    THEN [graph_json |-> "", outcome |-> "no rows", raised |-> FALSE]
    ELSE IF lib_ok
    THEN [graph_json |-> "figure", outcome |-> "drawn", raised |-> FALSE]
    ELSE [graph_json |-> "", outcome |-> "library raised", raised |-> FALSE]

viz_agent ==
    /\ pc = "viz_agent"
    /\ \E lib_ok \in BOOLEAN :
         /\ figure' = IF viz_render(query_result, lib_ok).outcome = "drawn"
                      THEN viz_figure(query_result, graph_type) ELSE NoFigure
         /\ graph_json' = viz_render(query_result, lib_ok).graph_json
         /\ viz_outcome' = viz_render(query_result, lib_ok).outcome
         /\ pc' = IF viz_render(query_result, lib_ok).raised THEN RAISED ELSE END
    /\ path' = Append(path, "viz_agent")
    /\ UNCHANGED <<sql_query, query_result, error, iteration, needs_graph,
                   graph_type, final_answer, is_in_scope, MAX_RETRIES,
                   analysis_result, graph_result, guardrail_result,
                   executed, repaired, initial_is_in_scope, last_attempt>>

Next ==
    \/ guardrail_agent
    \/ sql_agent
    \/ execute_sql
    \/ error_agent
    \/ analysis_agent
    \/ decide_graph_need
    \/ parallel_analysis_and_graph_decision
    \/ viz_agent

Spec == Init /\ [][Next]_vars

\* Every call returns or raises, and the graph runner always runs the next node.
FairSpec == Spec /\ WF_vars(Next)

\* ------------------------------------------------------------ properties
RECURSIVE Count(_, _)
Count(seq, x) == IF seq = <<>> THEN 0
                 ELSE (IF Head(seq) = x THEN 1 ELSE 0) + Count(Tail(seq), x)

\* every execution attempt so far failed (and there was one)
AllFailed == executed # <<>> /\ \A i \in 1..Len(executed) : ~executed[i].ok

\* the run is past the retry decision
PastExecution == pc \in {"parallel_analysis", "viz_agent", END}

\* C1: every run terminates: whatever the execution outcomes, the run
\* reaches the terminal state (or leaves by an exception when a call does
\* not return a value); the repair/execute cycle is not taken for ever.
C1_Termination == <>(pc \in {END, RAISED})

\* a run whose executions all failed took the cycle and still ended
C1_Witness == pc = END /\ AllFailed /\ Count(path, "error_agent") >= 1

\* C2: with the default ceiling, iteration never exceeds the ceiling + 1 (4).
C2_IterationBound ==
    MAX_RETRIES = DefaultMaxRetries => iteration <= MAX_RETRIES + 1

\* the counter at its largest: all executions failed, default ceiling
C2_Witness ==
    /\ MAX_RETRIES = DefaultMaxRetries
    /\ AllFailed /\ PastExecution
    /\ iteration = 3

\* C3: when every execution fails, the repairer has run exactly
\* retry-ceiling times (3 by default) when narration is reached, with
\* last_error still set.
C3_RepairerRunsCeilingTimes ==
    (MAX_RETRIES = DefaultMaxRetries /\ AllFailed /\ PastExecution)
        => (Count(path, "error_agent") = MAX_RETRIES /\ error # "")

\* C4: first execution fails, the next one succeeds: one repair and
\* iteration = 2 at completion.
C4_OneRepairCountsTwo ==
    (MAX_RETRIES = DefaultMaxRetries /\ pc = END /\ Len(executed) = 2 /\ ~executed[1].ok /\ executed[2].ok)
        => (Count(path, "error_agent") = 1 /\ iteration = 2)

\* C5: the step after every repair is the executor, run on the repairer's
\* text, and the synthesizer runs at most once per request.
C5_RepairThenExecute ==
    /\ \A i \in 1..Len(path) :
          (path[i] = "error_agent" /\ i < Len(path)) => path[i + 1] = "execute_sql"
    /\ Count(path, "sql_agent") <= 1
    /\ (repaired # <<>> /\ Len(executed) > Len(repaired))
          => executed[Len(executed)].query = repaired[Len(repaired)]

\* C6: with the default ceiling, the step after an execution attempt is the
\* repairer iff error is non-empty and iteration is below the ceiling, and
\* the narrate/decide-chart stage otherwise.
C6_RetryDecision ==
    [][(pc = "execute_sql" /\ MAX_RETRIES = DefaultMaxRetries)
          => pc' = IF error' # "" /\ iteration' < MAX_RETRIES
                   THEN "error_agent" ELSE "parallel_analysis"]_vars

\* the ceiling reached with the error still set: forward to narration
C6_Witness ==
    /\ MAX_RETRIES = DefaultMaxRetries
    /\ pc = "parallel_analysis" /\ error # "" /\ iteration = 3
    /\ Count(path, "error_agent") = 1

\* C7: the ceiling of the retry decision is the configured MAX_RETRIES:
\* a repair is entered only below it, and a failing run goes forward only
\* at or above it.
C7_CeilingFollowsConfig ==
    /\ pc = "error_agent" => iteration < MAX_RETRIES
    /\ (pc = "parallel_analysis" /\ error # "") => iteration >= MAX_RETRIES

\* C8: a greeting or out-of-scope request ends right after classification:
\* no other node has run, sql_query is still empty and final_answer is the
\* fixed string.
C8_ScopeShortCircuit ==
    /\ guardrail_result = <<"GREETING">> =>
          /\ pc = END /\ path = <<"guardrail_agent">> /\ executed = <<>>
          /\ sql_query = <<>> /\ final_answer = GREETING_ANSWER
          /\ final_answer # <<>>
    /\ guardrail_result = <<"OUT_OF_SCOPE">> =>
          /\ pc = END /\ path = <<"guardrail_agent">> /\ executed = <<>>
          /\ sql_query = <<>> /\ final_answer = OUT_OF_SCOPE_ANSWER
          /\ final_answer # <<>>

C8_Witness ==
    /\ pc = END
    /\ guardrail_result \in {<<"GREETING">>, <<"OUT_OF_SCOPE">>}
    /\ initial_is_in_scope

\* C9: a classifier output that is none of the three tokens is treated as
\* in scope and the run goes on to sql_agent, whatever is_in_scope was in
\* the initial state.
C9_FailOpen ==
    guardrail_result \notin
        {NotRun, <<"GREETING">>, <<"OUT_OF_SCOPE">>, <<"IN_SCOPE">>}
    => /\ is_in_scope
       /\ Len(path) = 1 => pc = "sql_agent"
       /\ Len(path) > 1 => path[2] = "sql_agent"

\* an unexpected token, with is_in_scope false in the initial state
C9_Witness ==
    /\ guardrail_result = <<"GREETING", " ", "IN_SCOPE">>
    /\ ~initial_is_in_scope
    /\ pc = "sql_agent"

\* C10: final_answer is non-empty whenever the run has completed.
C10_FinalAnswerPopulated == pc = END => final_answer # <<>>

\* C11: no failure leaves the pipeline as an exception: whatever call
\* fails, the run does not end by raising to the caller.
C11_NoExceptionEscapes == pc # RAISED

\* after an attempt, the fields hold that attempt's outcome and never both
RowsXorError ==
    /\ ~(query_result # NoRows /\ error # "")
    /\ executed # <<>> =>
          IF executed[Len(executed)].ok THEN error = ""
          ELSE error # "" /\ query_result = NoRows

\* C12: query_result and error are never both non-empty: a success stores
\* the rows and clears error, a failure stores the message and clears the
\* rows; execute_sql never raises, it always hands over to the retry decision.
C12_RowsXorError ==
    /\ []RowsXorError
    /\ [][pc = "execute_sql" => pc' \in {"error_agent", "parallel_analysis"}]_vars

\* a failed attempt followed by a successful one that returned rows
C12_Witness ==
    /\ Len(executed) = 2 /\ ~executed[1].ok /\ executed[2].ok
    /\ query_result # NoRows /\ error = ""

\* the row shape the fallback is stated on: several rows of several columns
MultiRowMultiColumn(rows) == Len(rows) > 1 /\ Len(rows[1]) > 1

\* C13: when the chart decision's completion text cannot be decoded as a
\* record, the classifier returns (true, bar) if the rows it was given are
\* multi-row and multi-column, and (false, none) otherwise.
C13_DecodeFailureHeuristic ==
    (graph_result.status = "done" /\ ~decodes_to_record(graph_result.raw))
    => IF MultiRowMultiColumn(graph_result.prompt.query_result)
       THEN graph_result.needs_graph = "True" /\ graph_result.graph_type = "bar"
       ELSE graph_result.needs_graph = "False" /\ graph_result.graph_type = "none"

\* C14: a failure of the chart decision's completion call stays inside the
\* classifier: the worker never ends by raising, and the joined node does
\* not raise because of it.
C14_ChartCallFailureSwallowed ==
    /\ graph_result.status # "raised"
    /\ (pc = RAISED /\ path[Len(path)] = "parallel_analysis")
          => analysis_result.status = "raised"

\* C15: graph_json is non-empty only if needs_graph is true and the
\* renderer ran and drew the figure; it stays empty on runs that end at
\* classification and on runs whose chart decision is false.
C15_ChartOnlyWhenNeededAndDrawn ==
    /\ graph_json # "" => (truthy(needs_graph) /\ viz_outcome = "drawn"
                           /\ Count(path, "viz_agent") = 1)
    /\ guardrail_result \in {<<"GREETING">>, <<"OUT_OF_SCOPE">>} => graph_json = ""
    /\ (pc = END /\ ~truthy(needs_graph)) => (graph_json = "" /\ viz_outcome = "not run")

C15_Witness == pc = END /\ graph_json # "" /\ needs_graph = "True"

\* C16: a renderer that cannot produce a figure (no parseable rows, or the
\* chart library raises) sets graph_json to empty, the run still reaches
\* END, and final_answer and the query fields stay as narration left them.
C16_RendererFailureContained ==
    [][pc = "viz_agent" =>
         /\ pc' = END
         /\ viz_outcome' # "drawn" => graph_json' = ""
         /\ UNCHANGED <<final_answer, sql_query, query_result, error>>]_vars

\* the chart library raised on rows that were there, and the run completed
C16_Witness ==
    /\ pc = END /\ viz_outcome = "library raised"
    /\ graph_json = "" /\ final_answer # <<>> /\ query_result # NoRows

\* both workers have returned a result
BothDone == analysis_result.status = "done" /\ graph_result.status = "done"

\* C17: narrate and decide_chart are a fork/join: both read the same
\* post-execution state, which no worker changes while the stage runs; the
\* pipeline goes on only after both are done, and the state then holds the
\* narrator's final_answer and the classifier's needs_graph / graph_type.
C17_ForkJoin ==
    /\ [](BothDone =>
            /\ analysis_result.prompt.query_result = query_result
            /\ graph_result.prompt.query_result = query_result
            /\ analysis_result.prompt.sql_query = sql_query)
    /\ [][pc = "parallel_analysis" =>
            /\ UNCHANGED <<sql_query, query_result, error, iteration>>
            /\ pc' = "parallel_analysis" =>
                  UNCHANGED <<final_answer, needs_graph, graph_type>>
            /\ pc' \in {"viz_agent", END} =>
                  /\ BothDone
                  /\ final_answer' = analysis_result.final_answer
                  /\ needs_graph' = graph_result.needs_graph
                  /\ graph_type' = graph_result.graph_type]_vars

\* the join has merged a narration and a positive chart decision
C17_Witness ==
    /\ pc = "viz_agent" /\ BothDone
    /\ final_answer # <<>> /\ final_answer = analysis_result.final_answer
    /\ needs_graph = "True" /\ graph_type = graph_result.graph_type

\* C18: a failure of one branch of the joined stage does not drop the
\* other branch's result: with the chart branch failed the narrator's
\* answer is in the state, and with the narrator failed the chart decision is.
C18_BranchFailureKeepsOther ==
    /\ (pc # "parallel_analysis" /\ analysis_result.status = "done"
          /\ graph_result.status = "raised")
        => final_answer = analysis_result.final_answer
    /\ (pc # "parallel_analysis" /\ graph_result.status = "done"
          /\ analysis_result.status = "raised")
        => (needs_graph = graph_result.needs_graph
            /\ graph_type = graph_result.graph_type)

\* the chart kinds of the data model
ChartKinds == {"bar", "line", "pie", "scatter", "none"}

\* C19: once the chart decision has been made, graph_type is one of bar,
\* line, pie, scatter, none and needs_graph is a boolean, for every
\* completion text.
C19_ChartDecisionTyped ==
    graph_result.status = "done"
    => /\ graph_result.graph_type \in ChartKinds
       /\ graph_result.needs_graph \in {"True", "False"}

\* C20: when narration is reached with error still set, the error text is
\* part of what the narrator is given.
C20_NarratorGivenError ==
    (analysis_result.status = "done" /\ error # "")
    => /\ "error" \in DOMAIN analysis_result.prompt
       /\ analysis_result.prompt.error = error

\* C22: at completion of an in-scope run, sql_query is the text that was
\* passed to the last execution attempt, and query_result / error are the
\* outcome of that attempt.
C22_ReportedQueryWasExecuted ==
    (pc = END /\ is_in_scope)
    => /\ executed # <<>>
       /\ sql_query = last_attempt.query
       /\ sql_query = executed[Len(executed)].query
       /\ query_result = last_attempt.query_result
       /\ error = last_attempt.error

\* a completed run with two attempts on different texts
C22_Witness ==
    /\ pc = END /\ is_in_scope /\ Len(executed) = 2
    /\ executed[1].query # executed[2].query
    /\ sql_query = executed[2].query

\* the rows the renderer drew, their arity, and one of their columns
DrawnColumns == Len(query_result[1])
DrawnColumn(k) == [i \in 1..Len(query_result) |-> query_result[i][k]]

\* the position of the label column when there are two or three columns
LabelPosition == IF DrawnColumns = 2 THEN 1 ELSE 2

\* column roles by position
RolesByPosition ==
    figure.columns =
        CASE DrawnColumns = 1 -> <<"value">>
          [] DrawnColumns = 2 -> <<"label", "value">>
          [] DrawnColumns = 3 -> <<"id", "label", "value">>
          [] OTHER -> [k \in 1..DrawnColumns |-> GenericColumns[k]]

====
